---- MODULE Spec2Model ----
(***************************************************************************)
(* Model of src/app.py: a FastAPI front-end that relays one user message   *)
(* to a remote agent service (call_agent) and renders the reply into an    *)
(* HTML page by placeholder substitution (render).                         *)
(*                                                                         *)
(* Text is a sequence of characters: an ASCII character is a one-character *)
(* string, a character outside ASCII the token "U+XXXX" of its code point. *)
(* The fixed parts of the HTML template, which hold no placeholder and are *)
(* never produced from user text, are single multi-character tokens.       *)
(***************************************************************************)
EXTENDS Integers, Sequences, FiniteSets, TLC

\* ------------------------------------------------------------------ bounds
\* Number of pieces a submitted message or an answer is assembled from.
MaxPieces == 2
\* Number of HTTP requests in flight.
NumReq == 2
\* Assistant messages one run appends to a thread.
MaxMsgs == 2
\* Text chunks of all messages one run appends, taken together.
MaxChunks == 3

Reqs == 1..NumReq

\* ----------------------------------------------------------- text helpers
RECURSIVE ReplaceFrom(_, _, _, _)
ReplaceFrom(s, old, new, i) ==
    IF i + Len(old) - 1 > Len(s) THEN SubSeq(s, i, Len(s))
    ELSE IF SubSeq(s, i, i + Len(old) - 1) = old
         THEN new \o ReplaceFrom(s, old, new, i + Len(old))
         ELSE <<s[i]>> \o ReplaceFrom(s, old, new, i + 1)

\* str.replace(old, new) for a non-empty old: every non-overlapping
\* occurrence, scanning left to right; the inserted text is not rescanned.
Replace(s, old, new) == ReplaceFrom(s, old, new, 1)

\* The ASCII control characters str.isspace() holds for beyond \n, \t, \r
\* and \f, each written as the character itself between the quotes.
\* vertical tab, \x0b
VT == ""
\* file separator, \x1c
FS == ""
\* group separator, \x1d
GS == ""
\* record separator, \x1e
RS == ""
\* unit separator, \x1f
US == ""

\* A character outside ASCII is the token "U+" and its code point in four
\* hexadecimal digits, so that it reads the same in every file encoding.
\* next line, \x85
NEL == "U+0085"
\* no-break space, \xa0
NBSP == "U+00A0"
\* Ogham space mark
OghamSpace == "U+1680"
\* The other spaces of Unicode: en quad to hair space, line and paragraph
\* separator, narrow no-break, medium mathematical and ideographic space.
UnicodeSpaces ==
    {"U+2000", "U+2001", "U+2002", "U+2003", "U+2004", "U+2005", "U+2006",
     "U+2007", "U+2008", "U+2009", "U+200A", "U+2028", "U+2029", "U+202F",
     "U+205F", "U+3000"}

\* Characters str.strip() removes: those str.isspace() holds for.
Whitespace ==
    {" ", "\n", "\t", "\r", "\f", VT, FS, GS, RS, US, NEL, NBSP, OghamSpace}
    \cup UnicodeSpaces

RECURSIVE LStrip(_)
LStrip(s) ==
    IF s # <<>> /\ Head(s) \in Whitespace THEN LStrip(Tail(s)) ELSE s

RECURSIVE RStrip(_)
RStrip(s) ==
    IF s # <<>> /\ s[Len(s)] \in Whitespace
    THEN RStrip(SubSeq(s, 1, Len(s) - 1)) ELSE s

\* str.strip()
Strip(s) == LStrip(RStrip(s))

RECURSIVE Join(_, _)
\* sep.join(parts)
Join(sep, parts) ==
    IF parts = <<>> THEN <<>>
    ELSE IF Len(parts) = 1 THEN parts[1]
    ELSE parts[1] \o sep \o Join(sep, Tail(parts))

StartsWith(s, p) == Len(s) >= Len(p) /\ SubSeq(s, 1, Len(p)) = p

\* s holds p as a contiguous part.
Contains(s, p) ==
    \E i \in 1..(Len(s) - Len(p) + 1) : SubSeq(s, i, i + Len(p) - 1) = p

\* Number of places of s where token t stands.
Count(s, t) == Cardinality({i \in 1..Len(s) : s[i] = t})

\* ------------------------------------------------------------- HTML page
PhMessage == <<"{", "{", "m", "e", "s", "s", "a", "g", "e", "}", "}">>
PhAnswerBlock ==
    <<"{", "{", "a", "n", "s", "w", "e", "r", "_", "b", "l", "o", "c", "k", "}", "}">>

TextareaOpen == "<textarea id=\"message\" name=\"message\" required>"
TextareaClose == "</textarea>"
DivAnswerOpen == "<div class=\"answer\">"
StrongAnswer == "<strong>Answer</strong><br/>"
DivClose == "</div>"

\* The page template: head, style and heading; the form with the message
\* placeholder inside the textarea; the answer placeholder; the tail.
HTML ==
    <<"<!DOCTYPE html>...<form method=\"post\" action=\"/chat\"><label/>", TextareaOpen>>
    \o PhMessage
    \o <<TextareaClose, "<div class=\"hint\">...</div><button/></form>">>
    \o PhAnswerBlock
    \o <<"</body></html>">>

AMP == <<"&", "a", "m", "p", ";">>
LT == <<"&", "l", "t", ";">>
GT == <<"&", "g", "t", ";">>

\* .replace("&", "&amp;").replace("<", "&lt;").replace(">", "&gt;")
safe(s) ==
    Replace(Replace(Replace(s, <<"&">>, AMP), <<"<">>, LT), <<">">>, GT)

answer_block(answer) ==
    IF answer # <<>>
    THEN <<DivAnswerOpen, StrongAnswer>> \o safe(answer) \o <<DivClose>>
    ELSE <<>>

\* render(message, answer): the content of the HTMLResponse.
render(message, answer) ==
    Replace(Replace(HTML, PhMessage, safe(message)),
            PhAnswerBlock, answer_block(answer))

\* HTMLResponse(content=html): status_code defaults to 200.
HTMLResponse(html) == [status |-> 200, content |-> html]

NoResponse == [status |-> 0, content |-> <<>>]


\* ---------------------------------------------------------------- config
DefaultEndpoint ==
    <<"https://companyresearch.services.ai.azure.com/api/projects/companyResearch">>
DefaultAgentId == <<"asst_Wb2ElHzBXdZtjCIOXlwoE8a3">>

EnvNames == {"PROJECT_ENDPOINT", "AGENT_ID"}
Unset == [set |-> FALSE, value |-> <<>>]
\* What the environment may hold for a name: nothing, "", or a value.
EnvValues == {Unset, [set |-> TRUE, value |-> <<>>], [set |-> TRUE, value |-> <<"v">>]}

\* os.environ.get(name, default)
EnvGet(env, name, default) ==
    IF env[name].set THEN env[name].value ELSE default

NoConfig == [PROJECT_ENDPOINT |-> <<>>, AGENT_ID |-> <<>>, project |-> FALSE]

\* ------------------------------------------------------------ call_agent
ErrorPrefix ==
    <<"E", "r", "r", "o", "r", " ", "c", "a", "l", "l", "i", "n", "g", " ",
      "a", "g", "e", "n", "t", ":", " ">>
RunFailedPrefix == <<"R", "u", "n", " ", "f", "a", "i", "l", "e", "d", ":", " ">>
NoReply ==
    <<"(", "N", "o", " ", "a", "s", "s", "i", "s", "t", "a", "n", "t", " ",
      "r", "e", "p", "l", "y", " ", "f", "o", "u", "n", "d", ".", ")">>
Sep == <<"\n", "\n">>

NoError == [given |-> FALSE, text |-> <<>>]
\* str(run.last_error): "None" when the service supplied none.
Str(last_error) ==
    IF last_error.given THEN last_error.text ELSE <<"N", "o", "n", "e">>

NoRun == [status |-> "none", last_error |-> NoError]

\* Faulty variant of ErrorString: the bare exception text, without the prefix.
ErrorStringBare(e) == e

\* f"Error calling agent: {e}"
ErrorString(e) == ErrorPrefix \o e

\* f"Run failed: {run.last_error}"
RunFailedString(run) == RunFailedPrefix \o Str(run.last_error)

\* Faulty variant of RunFailed: the status of the run is never looked at.
RunFailedNever(run) == FALSE

\* if run.status == "failed"
RunFailed(run) == run.status = "failed"

\* Faulty variant of LastChunk: the first chunk, msg.text_messages[0].
FirstChunk(msg) == msg.text_messages[1]

\* msg.text_messages[-1].text.value
LastChunk(msg) == msg.text_messages[Len(msg.text_messages)]

\* msg.role == "assistant" and getattr(msg, "text_messages", None)
IsAnswer(msg) == msg.role = "assistant" /\ msg.text_messages # <<>>

RECURSIVE CollectFrom(_, _, _)
\* The loop over the listed messages, appending to answers.
CollectFrom(messages, i, answers) ==
    IF i > Len(messages) THEN answers
    ELSE CollectFrom(messages, i + 1,
                     IF IsAnswer(messages[i])
                     THEN Append(answers, LastChunk(messages[i]))
                     ELSE answers)

\* What call_agent returns for the listed messages.
Reply(messages) ==
    LET answers == CollectFrom(messages, 1, <<>>)
    IN  IF answers = <<>> THEN NoReply ELSE Strip(Join(Sep, answers))

\* messages.create(thread_id=..., role="user", content=user_message)
UserMessage(tid, content) ==
    [thread_id |-> tid, role |-> "user", text_messages |-> <<content>>]

AssistantMessage(tid, chunks) ==
    [thread_id |-> tid, role |-> "assistant", text_messages |-> chunks]

\* ----------------------------------------------------------------- state
VARIABLES
    phase,      \* "boot", "serving" or "failed": module initialisation
    environ,    \* os.environ, the two names read at start
    config,     \* PROJECT_ENDPOINT, AGENT_ID and whether project was created
    threads,    \* remote service: thread id -> [by, messages]
    route,      \* per request: "none", "/" or "/chat"
    pc,         \* per request: the remote call the handler is at
    message,    \* per request: the submitted form field
    thread,     \* per request: thread.id of call_agent (0: not created)
    run,        \* per request: the run create_and_process returned
    listed,     \* per request: what messages.list returned
    result,     \* per request: what call_agent returned
    response,   \* per request: the HTMLResponse of the handler
    calls,      \* per request: the remote calls made, in order
    raisedAt    \* per request: the remote call that raised ("none")

vars == <<phase, environ, config, threads, route, pc, message, thread, run,
          listed, result, response, calls, raisedAt>>

locals == <<message, thread, run, listed, result, response, raisedAt>>

\* Faulty variant of ThreadOf: thread kept in a module-level name that every
\* invocation overwrites, so it is the thread created last.
ThreadOfShared(r) == Len(threads)

\* thread.id, a local of the invocation.
ThreadOf(r) == thread[r]

Call(op, tid) == [op |-> op, thread_id |-> tid]

IdleInit ==
    /\ threads = <<>>
    /\ route = [r \in Reqs |-> "none"]
    /\ pc = [r \in Reqs |-> "idle"]
    /\ message = [r \in Reqs |-> <<>>]
    /\ thread = [r \in Reqs |-> 0]
    /\ run = [r \in Reqs |-> NoRun]
    /\ listed = [r \in Reqs |-> <<>>]
    /\ result = [r \in Reqs |-> <<>>]
    /\ response = [r \in Reqs |-> NoResponse]
    /\ calls = [r \in Reqs |-> <<>>]
    /\ raisedAt = [r \in Reqs |-> "none"]

\* The process before module initialisation, in any environment.
Init ==
    /\ phase = "boot"
    /\ environ \in [EnvNames -> EnvValues]
    /\ config = NoConfig
    /\ IdleInit

\* Module initialisation: read the two names, refuse empty values, create
\* the shared client and the app.
Startup ==
    /\ phase = "boot"
    /\ LET endpoint == EnvGet(environ, "PROJECT_ENDPOINT", DefaultEndpoint)
           agent_id == EnvGet(environ, "AGENT_ID", DefaultAgentId)
       IN  IF endpoint = <<>> \/ agent_id = <<>>
           THEN /\ phase' = "failed"
                /\ config' = [PROJECT_ENDPOINT |-> endpoint, AGENT_ID |-> agent_id,
                              project |-> FALSE]
           ELSE /\ phase' = "serving"
                /\ config' = [PROJECT_ENDPOINT |-> endpoint, AGENT_ID |-> agent_id,
                              project |-> TRUE]
    /\ UNCHANGED <<environ, threads, route, pc, calls>>
    /\ UNCHANGED locals

\* call_agent returns answer and chat renders it.
Return(r, answer) ==
    /\ result' = [result EXCEPT ![r] = answer]
    /\ response' = [response EXCEPT ![r] = HTMLResponse(render(message[r], answer))]
    /\ pc' = [pc EXCEPT ![r] = "done"]

\* A remote call raised e: the except clause returns the error string.
Except(r, op, e) ==
    /\ raisedAt' = [raisedAt EXCEPT ![r] = op]
    /\ Return(r, ErrorString(e))

\* GET /
index(r) ==
    /\ phase = "serving"
    /\ pc[r] = "idle"
    /\ route' = [route EXCEPT ![r] = "/"]
    /\ response' = [response EXCEPT ![r] = HTMLResponse(render(<<>>, <<>>))]
    /\ pc' = [pc EXCEPT ![r] = "done"]
    /\ UNCHANGED <<phase, environ, config, threads, message, thread, run, listed,
                   result, calls, raisedAt>>

\* POST /chat with form field message = m: call_agent(m) starts.
chat(r, Msgs) ==
    /\ phase = "serving"
    /\ pc[r] = "idle"
    /\ \E m \in Msgs : message' = [message EXCEPT ![r] = m]
    /\ route' = [route EXCEPT ![r] = "/chat"]
    /\ pc' = [pc EXCEPT ![r] = "get_agent"]
    /\ UNCHANGED <<phase, environ, config, threads, thread, run, listed, result,
                   response, calls, raisedAt>>

\* 1) project.agents.get_agent(AGENT_ID)
GetAgent(r, Errs) ==
    /\ pc[r] = "get_agent"
    /\ calls' = [calls EXCEPT ![r] = Append(@, Call("get_agent", 0))]
    /\ \/ /\ pc' = [pc EXCEPT ![r] = "create_thread"]
          /\ UNCHANGED <<result, response, raisedAt>>
       \/ \E e \in Errs : Except(r, "get_agent", e)
    /\ UNCHANGED <<phase, environ, config, threads, route, message, thread, run, listed>>

\* Faulty variant of CreateThread: a thread already opened for the same
\* message text is reused instead of creating one.
CreateThreadCached(r, Errs) ==
    /\ pc[r] = "create_thread"
    /\ calls' = [calls EXCEPT ![r] = Append(@, Call("create_thread", 0))]
    /\ LET same == {q \in Reqs : q # r /\ thread[q] # 0 /\ message[q] = message[r]}
       IN  \/ /\ IF same = {}
                 THEN /\ threads' = Append(threads, [by |-> r, messages |-> <<>>])
                      /\ thread' = [thread EXCEPT ![r] = Len(threads) + 1]
                 ELSE /\ threads' = threads
                      /\ thread' = [thread EXCEPT ![r] = thread[CHOOSE q \in same : TRUE]]
              /\ pc' = [pc EXCEPT ![r] = "post_message"]
              /\ UNCHANGED <<result, response, raisedAt>>
           \/ /\ \E e \in Errs : Except(r, "create_thread", e)
              /\ UNCHANGED <<threads, thread>>
    /\ UNCHANGED <<phase, environ, config, route, message, run, listed>>

\* 2) project.agents.threads.create(): the service opens a new, empty thread.
CreateThread(r, Errs) ==
    /\ pc[r] = "create_thread"
    /\ calls' = [calls EXCEPT ![r] = Append(@, Call("create_thread", 0))]
    /\ \/ /\ threads' = Append(threads, [by |-> r, messages |-> <<>>])
          /\ thread' = [thread EXCEPT ![r] = Len(threads) + 1]
          /\ pc' = [pc EXCEPT ![r] = "post_message"]
          /\ UNCHANGED <<result, response, raisedAt>>
       \/ /\ \E e \in Errs : Except(r, "create_thread", e)
          /\ UNCHANGED <<threads, thread>>
    /\ UNCHANGED <<phase, environ, config, route, message, run, listed>>

\* 3) project.agents.messages.create(thread_id=thread.id, role="user", ...)
PostMessage(r, Errs) ==
    /\ pc[r] = "post_message"
    /\ calls' = [calls EXCEPT ![r] = Append(@, Call("post_message", ThreadOf(r)))]
    /\ \/ /\ threads' = [threads EXCEPT ![ThreadOf(r)].messages =
                            Append(@, UserMessage(ThreadOf(r), message[r]))]
          /\ pc' = [pc EXCEPT ![r] = "run"]
          /\ UNCHANGED <<result, response, raisedAt>>
       \/ /\ \E e \in Errs : Except(r, "post_message", e)
          /\ UNCHANGED threads
    /\ UNCHANGED <<phase, environ, config, route, message, thread, run, listed>>

\* The messages a run appends to its thread.
Stamp(tid, reply) == [i \in 1..Len(reply) |-> AssistantMessage(tid, reply[i])]

\* 4) project.agents.runs.create_and_process(thread_id=thread.id, ...): the
\* service runs the agent on the thread, which may append assistant messages,
\* and returns the run in a terminal status.
RunAndProcess(r, Replies, Runs, Errs) ==
    /\ pc[r] = "run"
    /\ calls' = [calls EXCEPT ![r] = Append(@, Call("run", ThreadOf(r)))]
    /\ \/ \E reply \in Replies, rn \in Runs :
            /\ threads' = [threads EXCEPT ![ThreadOf(r)].messages =
                              @ \o Stamp(ThreadOf(r), reply)]
            /\ run' = [run EXCEPT ![r] = rn]
            /\ IF RunFailed(rn)
               THEN /\ Return(r, RunFailedString(rn))
                    /\ UNCHANGED raisedAt
               ELSE /\ pc' = [pc EXCEPT ![r] = "list"]
                    /\ UNCHANGED <<result, response, raisedAt>>
       \/ /\ \E e \in Errs : Except(r, "run", e)
          /\ UNCHANGED <<threads, run>>
    /\ UNCHANGED <<phase, environ, config, route, message, thread, listed>>

\* 5) project.agents.messages.list(thread_id=thread.id, order=ASCENDING), the
\* loop over the messages and the return.
ListMessages(r, Errs) ==
    /\ pc[r] = "list"
    /\ calls' = [calls EXCEPT ![r] = Append(@, Call("list", ThreadOf(r)))]
    /\ \/ /\ listed' = [listed EXCEPT ![r] = threads[ThreadOf(r)].messages]
          /\ Return(r, Reply(threads[ThreadOf(r)].messages))
          /\ UNCHANGED raisedAt
       \/ /\ \E e \in Errs : Except(r, "list", e)
          /\ UNCHANGED listed
    /\ UNCHANGED <<phase, environ, config, threads, route, message, thread, run>>


\* ---------------------------------------------------------------- inputs
RECURSIVE Concat(_)
Concat(parts) == IF parts = <<>> THEN <<>> ELSE Head(parts) \o Concat(Tail(parts))

\* Pieces of text a message or an answer is assembled from: the characters
\* render escapes, plain text, and the two placeholders of the template.
Pieces == {<<"&">>, <<"<">>, <<">">>, <<"a">>, PhMessage, PhAnswerBlock}

Texts == {Concat(ps) : ps \in UNION {[1..n -> Pieces] : n \in 0..MaxPieces}}

\* Text chunks the agent writes.
ChunkTexts == {<<"<", "b">>, <<VT, "c">>, <<"\n">>}

\* Lists of at most n chunks: the text_messages of one message.
ChunkLists(n) == UNION {[1..k -> ChunkTexts] : k \in 0..n}

RECURSIVE RepliesWithin(_, _)
\* Lists of at most k messages holding at most c chunks together.
RepliesWithin(k, c) ==
    IF k = 0 THEN {<<>>}
    ELSE {<<>>} \cup
         UNION {{<<chunks>> \o rest : rest \in RepliesWithin(k - 1, c - Len(chunks))} :
                  chunks \in ChunkLists(c)}

\* What one run may append: up to MaxMsgs assistant messages (each a list of
\* chunks, possibly none) holding up to MaxChunks chunks together.
Replies == RepliesWithin(MaxMsgs, MaxChunks)

ErrorDetails == {NoError, [given |-> TRUE, text |-> <<"r", "a", "t", "e", "<">>]}

\* The runs create_and_process may return.
Runs ==
    {[status |-> "failed", last_error |-> le] : le \in ErrorDetails}
    \cup {[status |-> st, last_error |-> NoError] :
            st \in {"completed", "cancelled", "expired"}}

\* str(e) of the exceptions a remote call may raise.
Errors == {<<>>, <<"4", "0", "1">>}

RelayMsgs == {<<"a">>, <<"<", "&", ">">>, <<" ", "c">>}

\* The smaller inputs of the specification with several requests.
ServerMsgs == {<<"a">>, <<"<">>}
ServerReplies == {<<>>, << << <<"\n">>, <<"<", "b">> >> >>}
ServerRuns == {r \in Runs : r.last_error = NoError /\ r.status \in {"completed", "failed"}}
ServerErrors == {<<"4", "0", "1">>}

\* -------------------------------------------------------- specifications
\* The process from its start: module initialisation in any environment,
\* then one request.
Next ==
    \/ Startup
    \/ index(1)
    \/ chat(1, ServerMsgs)
    \/ GetAgent(1, ServerErrors)
    \/ CreateThread(1, ServerErrors)
    \/ PostMessage(1, ServerErrors)
    \/ RunAndProcess(1, ServerReplies, Runs, ServerErrors)
    \/ ListMessages(1, ServerErrors)

Spec == Init /\ [][Next]_vars

Serving ==
    /\ phase = "serving"
    /\ environ = [n \in EnvNames |-> [set |-> TRUE, value |-> <<"v">>]]
    /\ config = [PROJECT_ENDPOINT |-> <<"v">>, AGENT_ID |-> <<"v">>, project |-> TRUE]

\* The started server handling NumReq requests concurrently, each step of a
\* handler being one blocking remote call on the shared client.
InitServer == Serving /\ IdleInit

NextServer ==
    \E r \in Reqs :
        \/ index(r)
        \/ chat(r, ServerMsgs)
        \/ GetAgent(r, ServerErrors)
        \/ CreateThread(r, ServerErrors)
        \/ PostMessage(r, ServerErrors)
        \/ RunAndProcess(r, ServerReplies, ServerRuns, ServerErrors)
        \/ ListMessages(r, ServerErrors)

SpecServer == InitServer /\ [][NextServer]_vars

\* One POST /chat in full detail: every message list, run and exception.
InitRelay == Serving /\ IdleInit

NextRelay ==
    \/ chat(1, RelayMsgs)
    \/ GetAgent(1, Errors)
    \/ CreateThread(1, Errors)
    \/ PostMessage(1, Errors)
    \/ RunAndProcess(1, Replies, Runs, Errors)
    \/ ListMessages(1, Errors)

SpecRelay == InitRelay /\ [][NextRelay]_vars

\* render as a function of its two arguments.
InitRender ==
    /\ Serving
    /\ threads = <<>>
    /\ route = [r \in Reqs |-> "none"]
    /\ pc = [r \in Reqs |-> IF r = 1 THEN "render" ELSE "idle"]
    /\ \E m \in Texts : message = [r \in Reqs |-> IF r = 1 THEN m ELSE <<>>]
    /\ thread = [r \in Reqs |-> 0]
    /\ run = [r \in Reqs |-> NoRun]
    /\ listed = [r \in Reqs |-> <<>>]
    /\ \E a \in Texts : result = [r \in Reqs |-> IF r = 1 THEN a ELSE <<>>]
    /\ response = [r \in Reqs |-> NoResponse]
    /\ calls = [r \in Reqs |-> <<>>]
    /\ raisedAt = [r \in Reqs |-> "none"]

\* render(message=m, answer=a)
Render(r) ==
    /\ pc[r] = "render"
    /\ response' = [response EXCEPT ![r] = HTMLResponse(render(message[r], result[r]))]
    /\ pc' = [pc EXCEPT ![r] = "done"]
    /\ UNCHANGED <<phase, environ, config, threads, route, message, thread, run,
                   listed, result, calls, raisedAt>>

NextRender == Render(1)

SpecRender == InitRender /\ [][NextRender]_vars


\* ------------------------------------------------- reading the responses
\* The escaped form of s: each character on its own, & < > by their entities.
Escaped(s) ==
    Concat([i \in 1..Len(s) |->
              IF s[i] = "&" THEN AMP
              ELSE IF s[i] = "<" THEN LT
              ELSE IF s[i] = ">" THEN GT
              ELSE <<s[i]>>])

\* What the page shows inside its first textarea.
TextareaContent(html) ==
    LET open == CHOOSE i \in 1..Len(html) :
                    /\ html[i] = TextareaOpen
                    /\ \A k \in 1..(i - 1) : html[k] # TextareaOpen
        close == CHOOSE j \in (open + 1)..Len(html) :
                    /\ html[j] = TextareaClose
                    /\ \A k \in (open + 1)..(j - 1) : html[k] # TextareaClose
    IN  SubSeq(html, open + 1, close - 1)

\* Number of answer containers of the page.
AnswerBlocks(html) == Count(html, DivAnswerOpen)

\* The page has an answer container holding exactly the escaped a.
AnswerBlockHolds(html, a) ==
    Contains(html, <<DivAnswerOpen, StrongAnswer>> \o Escaped(a) \o <<DivClose>>)

\* The remote calls of call_agent, in the order of the code.
Steps == <<"get_agent", "create_thread", "post_message", "run", "list">>

Ops(r) == [i \in 1..Len(calls[r]) |-> calls[r][i].op]

Called(r, op) == \E i \in 1..Len(calls[r]) : calls[r][i].op = op

TimesCalled(r, op) == Cardinality({i \in 1..Len(calls[r]) : calls[r][i].op = op})

\* ---------------------------------------------------------------- claims
\* C1: when a remote step of call_agent raises, call_agent returns a string
\* starting with "Error calling agent:", the handler still answers (nothing
\* escapes), and the raising step is the last remote call of the invocation:
\* the calls made are the steps up to and including it, none after.
C1_RaiseBecomesErrorString ==
    \A r \in Reqs :
        raisedAt[r] # "none" =>
            /\ pc[r] = "done"
            /\ StartsWith(result[r], ErrorPrefix)
            /\ response[r].status = 200
            /\ Ops(r) = SubSeq(Steps, 1, Len(calls[r]))
            /\ calls[r][Len(calls[r])].op = raisedAt[r]

\* C1 witness: the last step, listing the messages, raised and the handler
\* answered with the error string.
C1_Witness ==
    /\ raisedAt[1] = "list"
    /\ pc[1] = "done"
    /\ result[1] = ErrorPrefix \o <<"4", "0", "1">>

\* C2 (as claimed): messages are listed only after a run that completed; any
\* other status gives neither assistant text nor the no-reply sentinel.
C2_ListOnlyWhenCompleted ==
    \A r \in Reqs :
        /\ Called(r, "list") => run[r].status = "completed"
        /\ (pc[r] = "done" /\ run[r].status \in {"failed", "cancelled", "expired"})
              => (StartsWith(result[r], ErrorPrefix) \/ StartsWith(result[r], RunFailedPrefix))

\* C3: a failed run makes call_agent return "Run failed: " followed by the
\* run's last_error; the messages are not listed and the run is made once.
C3_FailedRun ==
    \A r \in Reqs :
        run[r].status = "failed" =>
            /\ pc[r] = "done"
            /\ StartsWith(result[r], RunFailedPrefix)
            /\ run[r].last_error.given =>
                 SubSeq(result[r], Len(RunFailedPrefix) + 1, Len(result[r]))
                    = run[r].last_error.text
            /\ ~Called(r, "list")
            /\ TimesCalled(r, "run") = 1

\* C3 witness: a failed run with an error detail has been answered.
C3_Witness ==
    /\ run[1].status = "failed"
    /\ run[1].last_error.given
    /\ pc[1] = "done"
    /\ Contains(result[1], <<"r", "a", "t", "e", "<">>)

\* The reply the claim describes, for an ascending message list.
Trimmed(s) ==
    LET keep == {i \in 1..Len(s) : s[i] \notin Whitespace}
    IN  IF keep = {} THEN <<>>
        ELSE SubSeq(s, CHOOSE i \in keep : \A k \in keep : i <= k,
                       CHOOSE j \in keep : \A k \in keep : k <= j)

ExpectedReply(ms) ==
    LET sel == SelectSeq(ms, LAMBDA m : m.role = "assistant" /\ Len(m.text_messages) >= 1)
        last == [i \in 1..Len(sel) |-> sel[i].text_messages[Len(sel[i].text_messages)]]
    IN  IF Len(sel) = 0 THEN NoReply ELSE Trimmed(Join(Sep, last))

\* C4: when no call raised and the run did not fail, call_agent returns the
\* sentinel if no assistant message of the list has a text chunk, and else the
\* last chunks of those messages, in list order, joined by a blank line and
\* trimmed.
C4_ReplyOfMessages ==
    \A r \in Reqs :
        (pc[r] = "done" /\ route[r] = "/chat" /\ raisedAt[r] = "none"
            /\ run[r].status # "failed")
        => /\ listed[r] = threads[thread[r]].messages
           /\ result[r] = ExpectedReply(listed[r])

\* C4 witness: the thread holds the user message, an assistant message with
\* two chunks and one with a single chunk; the reply is the last chunk of the
\* first, a blank line, and the chunk of the second, trimmed.
C4_Witness ==
    /\ pc[1] = "done"
    /\ Len(listed[1]) = 3
    /\ listed[1][2].text_messages = << <<"<", "b">>, <<VT, "c">> >>
    /\ listed[1][3].text_messages = << <<"<", "b">> >>
    /\ result[1] = <<"c", "\n", "\n", "<", "b">>

\* C5 (as claimed): every POST /chat is answered with status 200 by a page
\* whose textarea holds the escaped message and which has an answer block
\* holding the escaped result of call_agent.
C5_ChatAlwaysShowsAnswer ==
    \A r \in Reqs :
        (route[r] = "/chat" /\ pc[r] = "done") =>
            /\ response[r].status = 200
            /\ TextareaContent(response[r].content) = Escaped(message[r])
            /\ AnswerBlockHolds(response[r].content, result[r])

\* C6 (as claimed): render of any message and a non-empty answer holds both
\* escaped texts and exactly one answer container, which holds the answer.
C6_RenderWithAnswer ==
    (pc[1] = "done" /\ route[1] = "none" /\ result[1] # <<>>) =>
        /\ Contains(response[1].content, Escaped(message[1]))
        /\ AnswerBlockHolds(response[1].content, result[1])
        /\ AnswerBlocks(response[1].content) = 1

\* C7 (as claimed): render of any message and the empty answer puts exactly
\* the escaped message in the textarea and no answer block in the page.
C7_RenderWithoutAnswer ==
    (pc[1] = "done" /\ route[1] = "none" /\ result[1] = <<>>) =>
        /\ TextareaContent(response[1].content) = Escaped(message[1])
        /\ AnswerBlocks(response[1].content) = 0

\* C8 (as claimed): the server serves, and the shared client exists, only
\* when the environment provided both PROJECT_ENDPOINT and AGENT_ID.
C8_StartupNeedsEnvironment ==
    (phase = "serving" \/ config.project) =>
        (environ["PROJECT_ENDPOINT"].set /\ environ["AGENT_ID"].set)

\* C9: under any interleaving, a request creates at most one thread; its
\* post-message, run and list calls name the thread it created; no two
\* requests hold the same thread; every thread holds only messages sent to
\* it, its user messages being its creator's; so the messages a request
\* lists, from which its answer is built, are those of its own thread.
C9_ThreadsNotShared ==
    \A r \in Reqs :
        /\ Cardinality({t \in 1..Len(threads) : threads[t].by = r}) <= 1
        /\ thread[r] # 0 => threads[thread[r]].by = r
        /\ \A q \in Reqs \ {r} : thread[r] # 0 => thread[q] # thread[r]
        /\ \A i \in 1..Len(calls[r]) :
              calls[r][i].op \in {"post_message", "run", "list"} =>
                  (thread[r] # 0 /\ calls[r][i].thread_id = thread[r])
        /\ \A i \in 1..Len(listed[r]) :
              /\ listed[r][i].thread_id = thread[r]
              /\ listed[r][i].role = "user" => listed[r][i].text_messages = <<message[r]>>
        /\ thread[r] # 0 =>
              \A i \in 1..Len(threads[thread[r]].messages) :
                 LET m == threads[thread[r]].messages[i]
                 IN  /\ m.thread_id = thread[r]
                     /\ m.role = "user" => m.text_messages = <<message[r]>>

\* C9 witness: two requests with different messages ran interleaved (the
\* second created its thread first) and both listed their messages.
C9_Witness ==
    /\ NumReq >= 2
    /\ pc[1] = "done" /\ pc[2] = "done"
    /\ message[1] # message[2]
    /\ thread[1] = 2 /\ thread[2] = 1
    /\ Len(listed[1]) = 2 /\ Len(listed[2]) = 2

\* C10 (as claimed): every finished invocation of call_agent, whatever its
\* outcome, has created a thread and posted the user message to it.
C10_AlwaysThreadAndMessage ==
    \A r \in Reqs :
        (route[r] = "/chat" /\ pc[r] = "done") =>
            /\ thread[r] # 0
            /\ threads[thread[r]].messages # <<>>

\* Threads of the service opened by request r.
ThreadsBy(r) == {t \in 1..Len(threads) : threads[t].by = r}

\* C10 (amended): a finished invocation of call_agent has created exactly one
\* thread, its own and different from the thread of every other request even
\* one with the same message, unless get-agent or create-thread raised; it
\* has posted its message to that thread first, with role "user", unless
\* get-agent, create-thread or post-message raised.  When one of the three
\* raises it returns the error string: after get-agent without calling
\* create-thread or post-message and with no thread, after create-thread
\* holding no thread and without calling post-message, after post-message
\* with its thread, one post-message call and no call after it.
C10_ThreadAndMessageByOutcome ==
    \A r \in Reqs :
        (route[r] = "/chat" /\ pc[r] = "done") =>
            /\ raisedAt[r] \notin {"get_agent", "create_thread"} =>
                  /\ thread[r] # 0
                  /\ ThreadsBy(r) = {thread[r]}
                  /\ \A q \in Reqs \ {r} : thread[q] # thread[r]
                  /\ TimesCalled(r, "create_thread") = 1
            /\ raisedAt[r] \notin {"get_agent", "create_thread", "post_message"} =>
                  /\ threads[thread[r]].messages # <<>>
                  /\ threads[thread[r]].messages[1].role = "user"
                  /\ threads[thread[r]].messages[1].text_messages = <<message[r]>>
                  /\ threads[thread[r]].messages[1].thread_id = thread[r]
                  /\ TimesCalled(r, "post_message") = 1
            /\ raisedAt[r] = "get_agent" =>
                  /\ StartsWith(result[r], ErrorPrefix)
                  /\ thread[r] = 0
                  /\ ThreadsBy(r) = {}
                  /\ Ops(r) = <<"get_agent">>
            /\ raisedAt[r] = "create_thread" =>
                  /\ StartsWith(result[r], ErrorPrefix)
                  /\ thread[r] = 0
                  /\ Ops(r) = <<"get_agent", "create_thread">>
            /\ raisedAt[r] = "post_message" =>
                  /\ StartsWith(result[r], ErrorPrefix)
                  /\ Ops(r) = <<"get_agent", "create_thread", "post_message">>
                  /\ calls[r][3].thread_id = thread[r]

\* C10 witness: two requests with the same message have finished; the first
\* ran through and its thread holds the message, the second was refused at
\* post-message and still has a thread of its own, another one.
C10_Witness ==
    /\ NumReq >= 2
    /\ pc[1] = "done" /\ pc[2] = "done"
    /\ route[1] = "/chat" /\ route[2] = "/chat"
    /\ message[1] = message[2]
    /\ raisedAt[1] = "none" /\ raisedAt[2] = "post_message"
    /\ thread[1] # 0 /\ thread[2] # 0 /\ thread[1] # thread[2]
    /\ threads[thread[1]].messages[1].text_messages = <<message[1]>>
    /\ threads[thread[2]].by = 2

====
